---------------------------- MODULE Spec2Model ----------------------------
(***************************************************************************)
(* Model of the console budget tracker in src/budget1.cpp.                 *)
(*                                                                         *)
(* The state is the BudgetTracker aggregate (lines 34-43) that main() puts *)
(* on its stack, the position of the control flow (pc), the locals that    *)
(* live across an input read, and what the current menu action has printed.*)
(*                                                                         *)
(* Arrays are modelled as functions from the 0-based indexes that have     *)
(* been written since the aggregate was created to the records stored      *)
(* there; a struct is a record whose domain is the set of members that     *)
(* have been written.  A slot or member that is absent holds the           *)
(* indeterminate bytes of the uninitialised stack object; the program      *)
(* never reads one.                                                        *)
(*                                                                         *)
(* Amounts are C floats.  The inputs of the model are integer valued, and  *)
(* FAdd rounds every sum to the nearest float (ties to even) exactly as    *)
(* IEEE-754 single precision does on integer values.                       *)
(***************************************************************************)
EXTENDS Integers, Sequences, FiniteSets, TLC

(***************************************************************************)
(* Program constants                                                       *)
(***************************************************************************)
MAX_TRANSACTIONS == 1000

MAX_NOTIFICATIONS == 50

\* 99: the byte count handed to strncpy in add_notification
MSG_COPY == 99

\* mutant: two seed names in each other's place
default_categories_Swapped ==
    <<"Salary", "Freelance", "Investments", "Transport",
      "Food", "Utilities", "Rent", "Entertainment">>

\* the eight seed names of init_tracker, in array order
default_categories ==
    <<"Salary", "Freelance", "Investments", "Food",
      "Transport", "Utilities", "Rent", "Entertainment">>

InitMessage == [text |-> "Tracker initialized with default categories.", len |-> 44]

\* a float has a 24 bit significand: every integer of magnitude <= 2^24 is a float
FloatExact == 2^24

(***************************************************************************)
(* Bounds of the exploration                                               *)
(***************************************************************************)
\* Spec: the user stops recording once this many transactions are stored
MaxTx == 3

\* SpecNotif: add_notification is called at most MAX_NOTIFICATIONS + MaxOverflow times
MaxOverflow == 60

(***************************************************************************)
(* Inputs                                                                  *)
(***************************************************************************)
\* what scanf("%f") yields for an amount: any float, negative ones included
Amounts == {-1, 1, FloatExact}

\* what scanf("%d") yields for the category: 0 and 9 are out of range
CategoryChoices == {0, 1, 8, 9}

Descriptions == {"d"}

\* what scanf("%d") yields at the menu prompt; 7 stands for every other int
MenuChoices == 1..7

\* the limits typed for category k (0-based) in set_budget: the two categories
\* the expense choices reach get every kind of limit (negative, none, small,
\* and one as large as an amount), the others a fixed one
LimitsFor(k) ==
    CASE k = 0 -> {-1, 0, 1}
      [] k = 7 -> {0, 1, FloatExact}
      [] OTHER -> {5}

\* indeterminate ints of the uninitialised aggregate
Garbage == {-3, 0, 4}

(***************************************************************************)
(* float arithmetic                                                        *)
(***************************************************************************)
Abs(x) == IF x < 0 THEN -x ELSE x

RECURSIVE UlpOf(_, _)
\* the spacing of the floats around magnitude a (u is a power of two)
UlpOf(a, u) == IF a <= FloatExact * u THEN u ELSE UlpOf(a, 2 * u)

\* round an integer to the nearest float, ties to the even significand
RoundF(x) ==
    LET a == Abs(x)
        u == UlpOf(a, 1)
        q == a \div u
        r == a % u
        m == IF 2 * r > u \/ (2 * r = u /\ q % 2 = 1) THEN (q + 1) * u ELSE q * u
    IN  IF x < 0 THEN -m ELSE m

\* a += b on floats
FAdd(a, b) == RoundF(a + b)

(***************************************************************************)
(* State                                                                   *)
(***************************************************************************)
VARIABLES
    transactions,        \* tracker.transactions: index -> the members written
    categories,          \* tracker.categories
    notifications,       \* tracker.notifications
    transaction_count,
    category_count,
    notification_count,
    total_income,
    total_expenses,
    pc,                  \* where the control is
    choice,              \* main_menu's choice, from dispatch to the loop test
    category_choice,     \* add_expense's local (dropped at the loop test)
    i,                   \* set_budget's loop index (0 outside the call)
    printed,             \* what the current menu action has printed so far
    calls                \* SpecNotif: the calls of add_notification made so far

tracker == <<transactions, categories, notifications, transaction_count,
             category_count, notification_count, total_income, total_expenses>>

vars == <<transactions, categories, notifications, transaction_count,
          category_count, notification_count, total_income, total_expenses,
          pc, choice, category_choice, i, printed, calls>>

\* array[index] := rec
Store(array, index, rec) == (index :> rec) @@ array

\* array[index].member := value, the other members of the slot kept
SetMember(array, index, member, value) ==
    LET old == IF index \in DOMAIN array THEN array[index] ELSE << >>
    IN  Store(array, index, (member :> value) @@ old)

\* BudgetTracker tracker; in main(): nothing is initialised
Init ==
    /\ transactions = << >>
    /\ categories = << >>
    /\ notifications = << >>
    /\ transaction_count \in Garbage
    /\ category_count \in Garbage
    /\ notification_count \in Garbage
    /\ total_income \in Garbage
    /\ total_expenses \in Garbage
    /\ pc = "start"
    /\ choice = 0
    /\ category_choice = 0
    /\ i = 0
    /\ printed = << >>
    /\ calls = 0

(***************************************************************************)
(* init_tracker                                                            *)
(***************************************************************************)
RECURSIVE SeedCategories_NoCount(_, _, _)
\* mutant: the loop without its category_count++
SeedCategories_NoCount(cats, count, k) ==
    IF k < Len(default_categories)
    THEN SeedCategories_NoCount(
             Store(cats, k, [name |-> default_categories[k + 1],
                             budget_limit |-> 0, current_spent |-> 0]),
             count, k + 1)
    ELSE [cats |-> cats, count |-> count]

RECURSIVE SeedCategories(_, _, _)
\* the loop of lines 79-84, from index k on
SeedCategories(cats, count, k) ==
    IF k < Len(default_categories)
    THEN SeedCategories(
             Store(cats, k, [name |-> default_categories[k + 1],
                             budget_limit |-> 0, current_spent |-> 0]),
             count + 1, k + 1)
    ELSE [cats |-> cats, count |-> count]

init_tracker ==
    /\ pc = "start"
    /\ LET seeded == SeedCategories(categories, 0, 0)
       IN  /\ categories' = seeded.cats
           /\ category_count' = seeded.count
    /\ transaction_count' = 0
    /\ total_income' = 0
    /\ total_expenses' = 0
    \* only the message member of notifications[0] is written
    /\ notifications' = SetMember(notifications, 0, "message", InitMessage)
    /\ notification_count' = 0 + 1
    /\ pc' = "menu"
    /\ UNCHANGED <<transactions, choice, category_choice, i, printed, calls>>

(***************************************************************************)
(* main_menu: the dispatch of one choice (lines 210-234)                   *)
(***************************************************************************)
Now == "now"

\* mutant: > for >=
TransactionsFull_OffByOne == transaction_count > MAX_TRANSACTIONS

\* the capacity test of add_income and add_expense (lines 91, 109)
TransactionsFull == transaction_count >= MAX_TRANSACTIONS

\* mutant: add_income asks for its inputs without looking at the capacity
menu_add_income_NoCheck ==
    /\ pc = "menu"
    /\ choice' = 1
    /\ printed' = << >>
    /\ pc' = "add_income"
    /\ UNCHANGED <<tracker, category_choice, i, calls>>

\* case 1, and add_income's capacity check (lines 91-94)
menu_add_income ==
    /\ pc = "menu"
    /\ choice' = 1
    /\ IF TransactionsFull
       THEN /\ printed' = <<"Transaction limit reached!">>
            /\ pc' = "while"
       ELSE /\ printed' = << >>
            /\ pc' = "add_income"
    /\ UNCHANGED <<tracker, category_choice, i, calls>>

\* case 2, and add_expense's capacity check (lines 109-112)
menu_add_expense ==
    /\ pc = "menu"
    /\ choice' = 2
    /\ IF TransactionsFull
       THEN /\ printed' = <<"Transaction limit reached!">>
            /\ pc' = "while"
       ELSE /\ printed' = << >>
            /\ pc' = "add_expense"
    /\ UNCHANGED <<tracker, category_choice, i, calls>>

\* case 3: view_transactions only prints
menu_view_transactions ==
    /\ pc = "menu"
    /\ choice' = 3
    /\ printed' = IF transaction_count = 0
                  THEN <<"No transactions recorded.">>
                  ELSE <<"Transactions:">>
    /\ pc' = "while"
    /\ UNCHANGED <<tracker, category_choice, i, calls>>

\* case 4, and set_budget up to its first prompt (lines 164-165)
menu_set_budget ==
    /\ pc = "menu"
    /\ choice' = 4
    /\ i' = 0
    /\ IF 0 < category_count
       THEN /\ printed' = <<"Set budget limits for categories:">>
            /\ pc' = "set_budget"
       ELSE /\ printed' = <<"Set budget limits for categories:",
                            "Budget limits updated.">>
            /\ pc' = "while"
    /\ UNCHANGED <<tracker, category_choice, calls>>

\* case 5: view_notifications only prints
menu_view_notifications ==
    /\ pc = "menu"
    /\ choice' = 5
    /\ printed' = IF notification_count = 0
                  THEN <<"No notifications available.">>
                  ELSE <<"Notifications:">>
    /\ pc' = "while"
    /\ UNCHANGED <<tracker, category_choice, i, calls>>

\* case 6
menu_exit ==
    /\ pc = "menu"
    /\ choice' = 6
    /\ printed' = <<"Exiting. Goodbye!">>
    /\ pc' = "while"
    /\ UNCHANGED <<tracker, category_choice, i, calls>>

\* default
menu_invalid(c) ==
    /\ pc = "menu"
    /\ c \notin 1..6
    /\ choice' = c
    /\ printed' = <<"Invalid choice. Try again.">>
    /\ pc' = "while"
    /\ UNCHANGED <<tracker, category_choice, i, calls>>

\* mutant: the loop goes on while choice < 6
loop_test_Below6 ==
    /\ pc = "while"
    /\ IF choice < 6
       THEN pc' = "menu" /\ printed' = << >> /\ choice' = 0
       ELSE pc' = "exit" /\ UNCHANGED <<printed, choice>>
    /\ category_choice' = 0
    /\ UNCHANGED <<tracker, i, calls>>

\* } while (choice != 6); and the menu texts of the next round (lines 203-209).
\* choice is overwritten by the next scanf; a scanf that fails leaves it, which
\* the draw of the next choice from MenuChoices covers.
loop_test ==
    /\ pc = "while"
    /\ IF choice # 6
       THEN pc' = "menu" /\ printed' = << >> /\ choice' = 0
       ELSE pc' = "exit" /\ UNCHANGED <<printed, choice>>
    /\ category_choice' = 0
    /\ UNCHANGED <<tracker, i, calls>>

(***************************************************************************)
(* add_income after its capacity check (lines 95-105)                      *)
(***************************************************************************)
\* mutant: the slot of the last stored transaction
t_LastStored == transaction_count - 1

\* Transaction *t = &tracker->transactions[tracker->transaction_count] (lines 95, 113)
t == transaction_count

\* mutant: is_income = 0, as in add_expense
IncomeRecord_AsExpense(amount, description) ==
    [amount |-> amount, description |-> description,
     category |-> "Income", timestamp |-> Now, is_income |-> 0]

\* mutant: the strcpy of the category left out
IncomeRecord_NoCategory(amount, description) ==
    [amount |-> amount, description |-> description,
     timestamp |-> Now, is_income |-> 1]

\* the members add_income writes through t (lines 96-100)
IncomeRecord(amount, description) ==
    [amount |-> amount, description |-> description,
     category |-> "Income", timestamp |-> Now, is_income |-> 1]

add_income(amount, description) ==
    /\ pc = "add_income"
    /\ transactions' = Store(transactions, t, IncomeRecord(amount, description))
    /\ total_income' = FAdd(total_income, transactions'[t].amount)
    /\ transaction_count' = transaction_count + 1
    /\ printed' = Append(printed, "Income added successfully!")
    /\ pc' = "while"
    /\ UNCHANGED <<categories, notifications, category_count, notification_count,
                   total_expenses, choice, category_choice, i, calls>>

(***************************************************************************)
(* add_expense after its capacity check                                    *)
(***************************************************************************)
\* mutant: the operands of the comparison swapped
OverBudget_Swapped(cat) ==
    cat.budget_limit > 0 /\ cat.budget_limit > cat.current_spent

\* lines 130-132
OverBudget(cat) ==
    cat.budget_limit > 0 /\ cat.current_spent > cat.budget_limit

\* mutant: the upper bound off by one
InvalidCategory_OffByOne(cc) == cc < 1 \/ cc > category_count + 1

\* line 123
InvalidCategory(cc) == cc < 1 \/ cc > category_count

\* what tracker->categories[k] can hold: the record written there, or the
\* indeterminate content of a slot init_tracker has not seeded
CategoryValues(k) ==
    IF k \in DOMAIN categories
    THEN {categories[k]}
    ELSE {[name |-> "?", budget_limit |-> g, current_spent |-> h] : g, h \in Garbage}

\* mutant: = for +=
Spend_Assign(cat, amount) == [cat EXCEPT !.current_spent = amount]

\* line 128
Spend(cat, amount) == [cat EXCEPT !.current_spent = FAdd(@, amount)]

\* mutant: going over the budget is also pushed to the notification log
add_expense_category_Notifies(amount, cc) ==
    /\ pc = "add_expense"
    /\ category_choice' = cc
    /\ LET withAmount == SetMember(transactions, t, "amount", amount)
       IN  IF InvalidCategory(cc)
           THEN /\ transactions' = withAmount
                /\ printed' = Append(printed, "Invalid category. Expense not recorded.")
                /\ pc' = "while"
                /\ UNCHANGED <<categories, notifications, notification_count>>
           ELSE \E cat \in CategoryValues(cc - 1) :
                    LET spent == Spend(cat, withAmount[t].amount)
                    IN  /\ transactions' = SetMember(withAmount, t, "category", cat.name)
                        /\ categories' = Store(categories, cc - 1, spent)
                        /\ IF OverBudget(spent)
                           THEN /\ printed' = Append(printed, "Warning: You exceeded the budget")
                                /\ notifications' =
                                       Store(notifications, notification_count,
                                             [message |-> [text |-> "Budget exceeded", len |-> 15],
                                              timestamp |-> Now, is_read |-> 0])
                                /\ notification_count' = notification_count + 1
                           ELSE UNCHANGED <<printed, notifications, notification_count>>
                        /\ pc' = "add_expense_store"
    /\ UNCHANGED <<transaction_count, category_count,
                   total_income, total_expenses, choice, i, calls>>

\* lines 113-135: the amount, the category choice, the category's update
add_expense_category(amount, cc) ==
    /\ pc = "add_expense"
    /\ category_choice' = cc
    /\ LET withAmount == SetMember(transactions, t, "amount", amount)
       IN  IF InvalidCategory(cc)
           THEN /\ transactions' = withAmount
                /\ printed' = Append(printed, "Invalid category. Expense not recorded.")
                /\ pc' = "while"
                /\ UNCHANGED categories
           ELSE \E cat \in CategoryValues(cc - 1) :
                    LET spent == Spend(cat, withAmount[t].amount)
                    IN  /\ transactions' = SetMember(withAmount, t, "category", cat.name)
                        /\ categories' = Store(categories, cc - 1, spent)
                        /\ printed' = IF OverBudget(spent)
                                      THEN Append(printed, "Warning: You exceeded the budget")
                                      ELSE printed
                        /\ pc' = "add_expense_store"
    /\ UNCHANGED <<notifications, transaction_count, category_count, notification_count,
                   total_income, total_expenses, choice, i, calls>>

\* mutant: the amount goes to total_income, as in add_income
add_expense_store_IntoIncome(description) ==
    /\ pc = "add_expense_store"
    /\ transactions' = Store(transactions, t,
                              [description |-> description, timestamp |-> Now,
                               is_income |-> 0] @@ transactions[t])
    /\ total_income' = FAdd(total_income, transactions'[t].amount)
    /\ transaction_count' = transaction_count + 1
    /\ printed' = Append(printed, "Expense added successfully!")
    /\ pc' = "while"
    /\ UNCHANGED <<categories, notifications, category_count, notification_count,
                   total_expenses, choice, category_choice, i, calls>>

\* mutant: add_expense returns after the category's spending is updated
add_expense_store_EarlyReturn(description) ==
    /\ pc = "add_expense_store"
    /\ pc' = "while"
    /\ UNCHANGED <<tracker, choice, category_choice, i, printed, calls>>

\* lines 137-144: the description, the totals
add_expense_store(description) ==
    /\ pc = "add_expense_store"
    /\ transactions' = Store(transactions, t,
                              [description |-> description, timestamp |-> Now,
                               is_income |-> 0] @@ transactions[t])
    /\ total_expenses' = FAdd(total_expenses, transactions'[t].amount)
    /\ transaction_count' = transaction_count + 1
    /\ printed' = Append(printed, "Expense added successfully!")
    /\ pc' = "while"
    /\ UNCHANGED <<categories, notifications, category_count, notification_count,
                   total_income, choice, category_choice, i, calls>>

\* mutant: setting a limit also starts the category's spending afresh
set_budget_ResetsSpent(limit) ==
    /\ pc = "set_budget"
    /\ categories' = Store(categories, i, [name |-> categories[i].name,
                                           budget_limit |-> limit,
                                           current_spent |-> 0])
    /\ IF i + 1 < category_count
       THEN /\ i' = i + 1 /\ pc' = "set_budget" /\ UNCHANGED printed
       ELSE /\ i' = 0 /\ pc' = "while"
            /\ printed' = Append(printed, "Budget limits updated.")
    /\ UNCHANGED <<transactions, notifications, transaction_count, category_count,
                   notification_count, total_income, total_expenses,
                   choice, category_choice, calls>>

(***************************************************************************)
(* set_budget: one round of its loop (lines 165-171)                       *)
(***************************************************************************)
set_budget(limit) ==
    /\ pc = "set_budget"
    /\ categories' = SetMember(categories, i, "budget_limit", limit)
    /\ IF i + 1 < category_count
       THEN /\ i' = i + 1
            /\ pc' = "set_budget"
            /\ UNCHANGED printed
       ELSE /\ i' = 0
            /\ pc' = "while"
            /\ printed' = Append(printed, "Budget limits updated.")
    /\ UNCHANGED <<transactions, notifications, transaction_count, category_count,
                   notification_count, total_income, total_expenses,
                   choice, category_choice, calls>>

(***************************************************************************)
(* add_notification (lines 174-185); no menu action calls it               *)
(***************************************************************************)
\* strncpy(n->message, message, 99)
Strncpy(message) ==
    [message EXCEPT !.len = IF @ < MSG_COPY THEN @ ELSE MSG_COPY]

\* mutant: the shift stops one slot early
ShiftDown_Short(notes) ==
    [k \in DOMAIN notes |->
        IF k < MAX_NOTIFICATIONS - 2 /\ k + 1 \in DOMAIN notes THEN notes[k + 1] ELSE notes[k]]

\* the shift of lines 176-178: slot k takes the content of slot k + 1
ShiftDown(notes) ==
    [k \in DOMAIN notes |->
        IF k < MAX_NOTIFICATIONS - 1 /\ k + 1 \in DOMAIN notes THEN notes[k + 1] ELSE notes[k]]

add_notification(message) ==
    LET full == notification_count >= MAX_NOTIFICATIONS
        notes == IF full THEN ShiftDown(notifications) ELSE notifications
        count == IF full THEN notification_count - 1 ELSE notification_count
    IN  /\ notifications' = Store(notes, count,
                                  [message |-> Strncpy(message), timestamp |-> Now,
                                   is_read |-> 0])
        /\ notification_count' = count + 1

(***************************************************************************)
(* Specifications                                                          *)
(***************************************************************************)
\* The program as main() runs it.  The user stops recording at MaxTx stored
\* transactions.
Next ==
    \/ init_tracker
    \/ (transaction_count < MaxTx /\ menu_add_income)
    \/ (transaction_count < MaxTx /\ menu_add_expense)
    \/ menu_view_transactions
    \/ menu_set_budget
    \/ menu_view_notifications
    \/ menu_exit
    \/ \E c \in MenuChoices : menu_invalid(c)
    \/ loop_test
    \/ \E a \in Amounts, d \in Descriptions : add_income(a, d)
    \/ \E a \in Amounts, cc \in CategoryChoices : add_expense_category(a, cc)
    \/ \E d \in Descriptions : add_expense_store(d)
    \/ \E l \in LimitsFor(i) : set_budget(l)

Spec == Init /\ [][Next]_vars

\* The storage filled to its capacity: the user records an income and an
\* expense of 1 in turn (a wrong category now and then) until the program
\* refuses, and goes on trying both.
NextFull ==
    \/ init_tracker
    \/ ((transaction_count >= MAX_TRANSACTIONS \/ transaction_count % 2 = 0)
            /\ menu_add_income)
    \/ ((transaction_count >= MAX_TRANSACTIONS \/ transaction_count % 2 = 1)
            /\ menu_add_expense)
    \/ loop_test
    \/ \E d \in Descriptions : add_income(1, d)
    \/ \E cc \in {0, 1} : add_expense_category(1, cc)
    \/ \E d \in Descriptions : add_expense_store(d)

SpecFull == Init /\ [][NextFull]_vars

\* The caller of add_notification that the program lacks: after init_tracker it
\* pushes message 1, message 2, ... (of lengths the 100 byte buffer holds).
Message(k) == [text |-> ToString(k), len |-> IF k % 2 = 0 THEN MSG_COPY - 1 ELSE 20]

push_notification ==
    /\ pc = "menu"
    /\ calls < MAX_NOTIFICATIONS + MaxOverflow
    /\ add_notification(Message(calls + 1))
    /\ calls' = calls + 1
    /\ UNCHANGED <<transactions, categories, transaction_count, category_count,
                   total_income, total_expenses, pc, choice, category_choice, i, printed>>

NextNotif ==
    \/ init_tracker
    \/ push_notification

SpecNotif == Init /\ [][NextNotif]_vars

(***************************************************************************)
(* Properties                                                              *)
(***************************************************************************)
Initialized == pc # "start"

\* the main loop waits for a choice, or is about to
AtMenu == pc \in {"menu", "while", "exit"}

Printed(line) == \E k \in DOMAIN printed : printed[k] = line

\* the transactions stored so far, in array order
Stored == [k \in 0..(transaction_count - 1) |-> transactions[k]]

RECURSIVE SumFrom(_, _, _)
\* acc + the amounts of the stored transactions k, k+1, ... whose is_income is
\* flag, added one by one in float arithmetic
SumFrom(k, flag, acc) ==
    IF k >= transaction_count THEN acc
    ELSE SumFrom(k + 1, flag,
                 IF transactions[k].is_income = flag
                 THEN FAdd(acc, transactions[k].amount) ELSE acc)

RECURSIVE SpentFrom(_, _)
\* acc + current_spent of the categories k, k+1, ..., in float arithmetic
SpentFrom(k, acc) ==
    IF k >= category_count THEN acc
    ELSE SpentFrom(k + 1, FAdd(acc, categories[k].current_spent))

RECURSIVE MagnitudeFrom(_, _)
\* acc + |amount| of the stored expenses k, k+1, ..., as integers
MagnitudeFrom(k, acc) ==
    IF k >= transaction_count THEN acc
    ELSE MagnitudeFrom(k + 1,
                       IF transactions[k].is_income = 0
                       THEN acc + Abs(transactions[k].amount) ELSE acc)

\* C1: once init_tracker has run, total_income is the float sum of the amounts
\* of the stored income transactions and total_expenses that of the stored
\* expenses, whatever was recorded or rejected before.
C1_TotalsMatchTransactions ==
    Initialized =>
        /\ total_income = SumFrom(0, 1, 0)
        /\ total_expenses = SumFrom(0, 0, 0)

\* an expense has just been rejected for its category after an income and an
\* expense were stored, one of them rounded into the total
C1_Witness ==
    /\ pc = "while"
    /\ Printed("Invalid category. Expense not recorded.")
    /\ \E k \in DOMAIN Stored : Stored[k].is_income = 1
    /\ \E k \in DOMAIN Stored : Stored[k].is_income = 0
    /\ total_income + total_expenses > FloatExact

\* C2, as claimed: whenever control is back at the menu, the current_spent of
\* all categories add up to total_expenses (here even with every stored amount
\* positive, as the data model wants it).
C2_SpentEqualsExpenses ==
    (Initialized /\ AtMenu /\ \A k \in DOMAIN Stored : Stored[k].amount > 0)
        => SpentFrom(0, 0) = total_expenses

\* C2, amended: whenever control is back at the menu and the magnitudes of the
\* stored expense amounts add up to at most 2^24 (no float addition has
\* rounded), the current_spent of all categories add up to total_expenses.
C2_SpentEqualsExpensesExact ==
    (Initialized /\ AtMenu /\ MagnitudeFrom(0, 0) <= FloatExact)
        => SpentFrom(0, 0) = total_expenses

\* expenses were stored in two categories, and one was then rejected
C2_Witness ==
    /\ pc = "while"
    /\ Printed("Invalid category. Expense not recorded.")
    /\ MagnitudeFrom(0, 0) <= FloatExact
    /\ categories[0].current_spent # 0
    /\ categories[7].current_spent # 0
    /\ total_expenses # 0

\* C3: an add_expense whose category choice is below 1 or above category_count
\* prints the invalid-category message and returns, and leaves both totals,
\* every category, the transaction count and the stored transactions as they
\* were.
C3_InvalidCategoryRejected ==
    [][(pc = "add_expense" /\ pc' # "add_expense"
            /\ (category_choice' < 1 \/ category_choice' > category_count))
        => /\ pc' = "while"
           /\ Printed("Invalid category. Expense not recorded.")'
           /\ ~Printed("Expense added successfully!")'
           /\ UNCHANGED <<total_expenses, total_income, categories,
                          transaction_count, category_count>>
           /\ Stored' = Stored]_vars

\* the choice 9 was rejected with transactions stored and money spent
C3_Witness ==
    /\ pc = "while"
    /\ category_choice = 9
    /\ Printed("Invalid category. Expense not recorded.")
    /\ transaction_count >= 2
    /\ total_expenses # 0

\* C4: transaction_count never exceeds MAX_TRANSACTIONS, and with
\* MAX_TRANSACTIONS transactions stored every add_income and add_expense prints
\* that the limit is reached and returns with the tracker untouched.
C4_CapacityEnforced ==
    /\ [](Initialized => transaction_count <= MAX_TRANSACTIONS)
    /\ [][(pc = "menu" /\ transaction_count = MAX_TRANSACTIONS /\ choice' \in {1, 2})
            => /\ pc' = "while"
               /\ printed' = <<"Transaction limit reached!">>
               /\ UNCHANGED tracker]_vars

\* add_expense has just been refused with the storage full
C4_Witness ==
    /\ pc = "while"
    /\ choice = 2
    /\ transaction_count = MAX_TRANSACTIONS
    /\ printed = <<"Transaction limit reached!">>

\* the messages handed to the log so far, the initialization message first
History == <<InitMessage>> \o [k \in 1..calls |-> Message(k)]

Min(a, b) == IF a < b THEN a ELSE b

\* C5: after the calls add_notification(m1), ..., add_notification(mk) on the
\* fresh ledger the log holds the last min(k + 1, MAX_NOTIFICATIONS) of
\* <<initialization message, m1, ..., mk>>, oldest first.
C5_NotificationFifo ==
    Initialized =>
        /\ notification_count = Min(calls + 1, MAX_NOTIFICATIONS)
        /\ \A k \in 0..(notification_count - 1) :
              notifications[k].message = History[Len(History) - notification_count + k + 1]

\* the log has overflowed several times: its oldest entry is a pushed message
C5_Witness ==
    /\ calls > MAX_NOTIFICATIONS + 1
    /\ notification_count = MAX_NOTIFICATIONS
    /\ notifications[0].message = Message(calls - MAX_NOTIFICATIONS + 1)
    /\ notifications[MAX_NOTIFICATIONS - 1].message = Message(calls)

\* the ledger as init_tracker has to leave it
Fresh ==
    /\ category_count = 8
    /\ LET names == <<"Salary", "Freelance", "Investments", "Food",
                      "Transport", "Utilities", "Rent", "Entertainment">>
       IN  \A k \in 0..7 :
              categories[k] = [name |-> names[k + 1],
                               budget_limit |-> 0, current_spent |-> 0]
    /\ transaction_count = 0
    /\ notification_count = 1
    /\ notifications[0].message.text = "Tracker initialized with default categories."
    /\ total_income = 0
    /\ total_expenses = 0

\* C6: whatever the uninitialised tracker held, init_tracker leaves 8 categories
\* with the seed names in order and zero limit and spend, no transaction, the
\* one initialization notification, and both totals 0.
C6_InitTracker == [][pc = "start" => Fresh']_vars

\* init_tracker has run and nothing else yet
C6_Witness == pc = "menu" /\ Fresh /\ transactions = << >> /\ printed = << >>

\* C7, as claimed: an add_expense that accepts its category prints the budget
\* warning exactly when that category's budget_limit is not 0 and its
\* current_spent, the amount added, is above the limit.
C7_WarningIffOverNonZeroLimit ==
    pc = "add_expense_store" =>
        LET cat == categories[category_choice - 1]
        IN  Printed("Warning: You exceeded the budget")
                <=> (cat.budget_limit # 0 /\ cat.current_spent > cat.budget_limit)

\* C8, as claimed: every category has current_spent >= 0 and budget_limit >= 0.
C8_NonNegative ==
    Initialized =>
        \A k \in 0..(category_count - 1) :
            categories[k].current_spent >= 0 /\ categories[k].budget_limit >= 0

\* C9, as claimed: no step lowers the current_spent of a category.
C9_SpentNeverDecreases ==
    [][Initialized =>
        \A k \in 0..(category_count - 1) :
            categories'[k].current_spent >= categories[k].current_spent]_vars

\* C10: once init_tracker has run, no step lowers transaction_count or changes
\* a stored transaction, and a step that raises the count raises it by one.
C10_AppendOnly ==
    [][Initialized =>
        /\ transaction_count' >= transaction_count
        /\ transaction_count' <= transaction_count + 1
        /\ \A k \in 0..(transaction_count - 1) :
              /\ k \in DOMAIN transactions'
              /\ transactions'[k] = transactions[k]]_vars

\* an expense was rejected for its category after two transactions were
\* stored: its amount is in the free slot, the stored ones are complete
C10_Witness ==
    /\ pc = "while"
    /\ Printed("Invalid category. Expense not recorded.")
    /\ transaction_count = 2
    /\ DOMAIN transactions[2] = {"amount"}
    /\ \A k \in 0..1 :
          DOMAIN transactions[k]
              = {"amount", "description", "category", "timestamp", "is_income"}

TransactionMembers == {"amount", "description", "category", "timestamp", "is_income"}

\* the step appends one transaction and leaves the stored ones alone
AppendsOne ==
    /\ transaction_count' = transaction_count + 1
    /\ DOMAIN transactions'[transaction_count] = TransactionMembers
    /\ \A k \in 0..(transaction_count - 1) : transactions'[k] = transactions[k]

\* C11: an add_expense that accepts its category choice c adds the amount (a
\* float addition) to the current_spent of category c and to nothing else, and
\* then appends one transaction with that amount, the name of category c and
\* is_income = 0 and adds the amount to total_expenses; total_income, the
\* other categories and every budget_limit stay as they were.
C11_ExpenseEffect ==
    /\ [][(pc = "add_expense" /\ pc' = "add_expense_store")
            => /\ \A k \in 0..(category_count - 1) :
                     categories'[k] =
                        IF k = category_choice' - 1
                        THEN [categories[k] EXCEPT
                                !.current_spent = FAdd(@, transactions'[transaction_count].amount)]
                        ELSE categories[k]
               /\ UNCHANGED <<total_income, total_expenses, transaction_count,
                              category_count>>]_vars
    /\ [][pc = "add_expense_store"
            => /\ AppendsOne
               /\ transactions'[transaction_count].is_income = 0
               /\ transactions'[transaction_count].category
                     = categories[category_choice - 1].name
               /\ transactions'[transaction_count].amount
                     = transactions[transaction_count].amount
               /\ total_expenses'
                     = FAdd(total_expenses, transactions[transaction_count].amount)
               /\ UNCHANGED <<total_income, categories, category_count>>]_vars

\* an expense on Entertainment has been stored after an income and after limits
\* were set
C11_Witness ==
    /\ pc = "while"
    /\ Printed("Expense added successfully!")
    /\ category_choice = 8
    /\ transaction_count >= 2
    /\ transactions[transaction_count - 1].category = "Entertainment"
    /\ categories[7].current_spent # 0
    /\ categories[0].budget_limit # 0
    /\ total_income # 0

\* C12: add_income, past its capacity check, appends one transaction with
\* category "Income" and is_income = 1, adds its amount (a float addition) to
\* total_income, leaves total_expenses and the categories alone and prints no
\* budget warning.
C12_IncomeEffect ==
    [][pc = "add_income"
        => /\ AppendsOne
           /\ transactions'[transaction_count].category = "Income"
           /\ transactions'[transaction_count].is_income = 1
           /\ total_income'
                 = FAdd(total_income, transactions'[transaction_count].amount)
           /\ ~Printed("Warning: You exceeded the budget")'
           /\ UNCHANGED <<total_expenses, categories, category_count>>]_vars

\* an income has been stored while Salary is over its limit
C12_Witness ==
    /\ pc = "while"
    /\ Printed("Income added successfully!")
    /\ transactions[transaction_count - 1].is_income = 1
    /\ categories[0].budget_limit > 0
    /\ categories[0].current_spent > categories[0].budget_limit
    /\ total_expenses # 0

\* the step is add_expense accepting a positive amount for a category that has
\* a positive limit and has spent at least that limit
ExpenseOnExhaustedBudget ==
    /\ pc = "add_expense"
    /\ pc' = "add_expense_store"
    /\ transactions'[transaction_count].amount > 0
    /\ categories[category_choice' - 1].budget_limit > 0
    /\ categories[category_choice' - 1].current_spent
          >= categories[category_choice' - 1].budget_limit

\* set_budget takes every limit it is given: a round of its loop stores the
\* limit and moves on, printing nothing but the final line
SetBudgetNeverRefuses ==
    [][pc = "set_budget"
        => \/ (pc' = "set_budget" /\ i' = i + 1 /\ printed' = printed)
           \/ (pc' = "while" /\ printed' = Append(printed, "Budget limits updated."))]_vars

\* C13, as claimed: set_budget never refuses a limit, and an expense of a
\* positive amount on a category with a positive limit L and current_spent >= L
\* prints the budget warning.
C13_ExhaustedBudgetWarns ==
    /\ SetBudgetNeverRefuses
    /\ [][ExpenseOnExhaustedBudget => Printed("Warning: You exceeded the budget")']_vars

\* C13, amended: ... prints the budget warning, unless current_spent = L and
\* the float addition of the amount leaves current_spent as it was.
C13_ExhaustedBudgetWarnsUnlessAbsorbed ==
    /\ SetBudgetNeverRefuses
    /\ [][(ExpenseOnExhaustedBudget
             /\ (categories[category_choice' - 1].current_spent
                    > categories[category_choice' - 1].budget_limit
                 \/ categories'[category_choice' - 1].current_spent
                    # categories[category_choice' - 1].current_spent))
            => Printed("Warning: You exceeded the budget")']_vars

\* Entertainment had spent 2^24 when the limit 1 was set below it; the next
\* expense of 1 has printed the warning
C13_Witness ==
    /\ pc = "add_expense_store"
    /\ category_choice = 8
    /\ transaction_count = 1
    /\ transactions[0].category = "Entertainment"
    /\ transactions[0].amount = FloatExact
    /\ transactions[1].amount = 1
    /\ categories[7].budget_limit = 1
    /\ Printed("Warning: You exceeded the budget")

\* C14: set_budget starts at the first category and each round of its loop
\* replaces the budget_limit of category i alone, then moves to i + 1 until the
\* last category; names, current_spent, the category count, both totals, the
\* transactions and the notifications stay as they were.
C14_SetBudgetFrame ==
    /\ [][pc' = "set_budget" /\ pc # "set_budget"
            => pc = "menu" /\ i' = 0 /\ UNCHANGED tracker]_vars
    /\ [][pc = "set_budget"
            => /\ i \in 0..(category_count - 1)
               /\ DOMAIN categories' = DOMAIN categories
               /\ \A k \in DOMAIN categories :
                     /\ categories'[k].name = categories[k].name
                     /\ categories'[k].current_spent = categories[k].current_spent
                     /\ k # i => categories'[k].budget_limit = categories[k].budget_limit
               /\ IF i + 1 < category_count
                  THEN pc' = "set_budget" /\ i' = i + 1
                  ELSE pc' = "while"
               /\ UNCHANGED <<transactions, notifications, transaction_count,
                              category_count, notification_count,
                              total_income, total_expenses>>]_vars

\* set_budget has returned after giving limits to categories that had spent
C14_Witness ==
    /\ pc = "while"
    /\ choice = 4
    /\ Printed("Budget limits updated.")
    /\ categories[0].budget_limit = 1
    /\ categories[0].current_spent = 1
    /\ categories[7].budget_limit = FloatExact
    /\ categories[7].current_spent = 1
    /\ transaction_count = 2

\* C15: once init_tracker has run there are exactly eight categories, named
\* Salary, Freelance, Investments, Food, Transport, Utilities, Rent and
\* Entertainment in this order, all names different, whatever has been done since.
C15_CategoriesFixed ==
    Initialized =>
        /\ category_count = 8
        /\ DOMAIN categories = 0..7
        /\ categories[0].name = "Salary"
        /\ categories[1].name = "Freelance"
        /\ categories[2].name = "Investments"
        /\ categories[3].name = "Food"
        /\ categories[4].name = "Transport"
        /\ categories[5].name = "Utilities"
        /\ categories[6].name = "Rent"
        /\ categories[7].name = "Entertainment"
        /\ \A j, k \in 0..7 : j # k => categories[j].name # categories[k].name

\* an income, an expense and a round of set_budget have all been done
C15_Witness ==
    /\ pc = "menu"
    /\ transaction_count = 2
    /\ total_income = 1
    /\ total_expenses = 1
    /\ categories[7].current_spent = 1
    /\ categories[7].budget_limit = 1
    /\ categories[0].budget_limit = -1

\* C16: the notification log holds the one message of init_tracker and nothing
\* else at every moment after initialisation, and no step of a menu action
\* changes it; going over a budget only prints.
C16_LogUntouched ==
    /\ [](Initialized => /\ notification_count = 1
                         /\ DOMAIN notifications = {0}
                         /\ notifications[0].message = InitMessage)
    /\ [][Initialized => UNCHANGED <<notifications, notification_count>>]_vars

\* the budget warning has been printed and the log still holds one entry
C16_Witness ==
    /\ pc = "add_expense_store"
    /\ Printed("Warning: You exceeded the budget")
    /\ category_choice = 1
    /\ categories[0].budget_limit = 1
    /\ categories[0].current_spent = FloatExact
    /\ notification_count = 1
    /\ DOMAIN notifications = {0}

\* the places where add_income and add_expense read the user's input
ReadingInput == pc \in {"add_income", "add_expense", "add_expense_store"}

\* C17: add_income and add_expense test the capacity before anything else: they
\* are never at a read of user input with the storage full, and called with the
\* storage full they return at once, no input read.
C17_FullReturnsBeforeInput ==
    /\ [](ReadingInput => transaction_count < MAX_TRANSACTIONS)
    /\ [][(pc = "menu" /\ TransactionsFull /\ choice' \in {1, 2})
            => pc' = "while" /\ ~ReadingInput']_vars
    /\ [][ReadingInput' /\ ~ReadingInput
            => pc = "menu" /\ ~TransactionsFull /\ choice' \in {1, 2}]_vars

\* add_income has just been refused with the storage full
C17_Witness ==
    /\ pc = "while"
    /\ choice = 1
    /\ TransactionsFull
    /\ Printed("Transaction limit reached!")

\* C18: add_expense has no way out between the addition to current_spent and
\* the additions to total_expenses and transaction_count: a step that changes
\* a current_spent leaves add_expense waiting for the description, and from
\* there the one thing that can happen, and always can, is the step that adds
\* the amount to total_expenses and one to transaction_count.
C18_ExpenseAllOrNothing ==
    /\ [][(\E k \in DOMAIN categories :
               categories'[k].current_spent # categories[k].current_spent)
            => pc = "add_expense" /\ pc' = "add_expense_store"]_vars
    /\ [][pc = "add_expense" /\ pc' # "add_expense_store"
            => UNCHANGED <<categories, total_expenses, transaction_count>>]_vars
    /\ [][pc = "add_expense_store"
            => /\ pc' = "while"
               /\ transaction_count' = transaction_count + 1
               /\ total_expenses' = FAdd(total_expenses,
                                         transactions[transaction_count].amount)
               /\ UNCHANGED categories]_vars
    /\ [](pc = "add_expense_store"
            => ENABLED (\E d \in Descriptions : add_expense_store(d)))

\* an expense that went over its budget, warning printed, has been completed
C18_Witness ==
    /\ pc = "while"
    /\ Printed("Warning: You exceeded the budget")
    /\ Printed("Expense added successfully!")
    /\ transaction_count = 2
    /\ total_expenses = 2
    /\ categories[0].current_spent = 2
    /\ categories[0].budget_limit = 1

\* C19: every notification in the log, the one init_tracker writes included,
\* has is_read = 0 and its timestamp written.
C19_NotificationsUnread ==
    Initialized =>
        \A k \in 0..(notification_count - 1) :
            /\ "is_read" \in DOMAIN notifications[k]
            /\ notifications[k].is_read = 0
            /\ "timestamp" \in DOMAIN notifications[k]

\* the number of steps a menu action has left before the menu is shown again
\* or the program ends
StepsLeft ==
    CASE pc = "while" -> 1
      [] pc = "add_income" -> 2
      [] pc = "add_expense_store" -> 2
      [] pc = "add_expense" -> 3
      [] pc = "set_budget" -> 1 + (category_count - i)
      [] OTHER -> 0

=============================================================================
